---- MODULE Spec2Model ----
(***************************************************************************)
(* Model of the /check_compliance endpoint of compliant-api.py: the        *)
(* denylist matcher, the upload validation, the temporary file, the call   *)
(* of the external classifier and the normalisation of its outcomes.       *)
(* Text is modelled by TLA+ strings, handled character by character with   *)
(* Len, SubSeq, Tail and \o.                                                *)
(***************************************************************************)
EXTENDS Integers, Sequences, FiniteSets, TLC

(***************************************************************************)
(* Python values: None, and a present value s as Some(s).                  *)
(***************************************************************************)
None == <<>>

Some(v) == <<v>>

\* f"{v}" of an optional string: str(None) is "None".
format(v) == IF v = None THEN "None" ELSE v[1]

\* Python truthiness of an optional string: None and "" are falsy.
truthy(v) == v # None /\ v[1] # ""

(***************************************************************************)
(* The denylist, in the order and the casing of the source.                *)
(***************************************************************************)
blacklist_words == <<
    "alcohol", "weed", "marijuana", "cannabis", "vodka", "whiskey", "beer",
    "tobacco", "cigarettes", "vape", "e-cigarettes", "smoking", "heroin",
    "cocaine", "meth", "opioids", "ecstasy", "narcotics", "gambling",
    "casino", "betting", "poker", "lottery", "nudity", "porn", "NSFW",
    "prostitution", "sex", "fetish", "lingerie", "stripper", "naked",
    "drugs", "hashish", "amphetamine", "explosives", "terrorism",
    "extremism", "illegal", "sutta", "daaru", "maal", "charsi", "ganja",
    "nashe", "chirkut", "tharki", "kamina", "behenchod", "madarchod",
    "chutiya", "harami", "bhosad", "bakchodi", "gaand", "suar", "hijra",
    "bastard", "rape", "molest", "dalali", "nanga", "lauda", "kidnap",
    "dacoit", "firangi", "dhamki", "suicide", "murders", "lootera",
    "darinda", "lafanga", "sadakchap", "gunda", "nashedi", "bawali", "opium",
    "hookah"
>>

UpperCase == "ABCDEFGHIJKLMNOPQRSTUVWXYZ"

LowerCase == "abcdefghijklmnopqrstuvwxyz"

\* str.lower() on one character (ASCII).
lower_char(c) ==
    IF \E i \in 1..Len(UpperCase) : SubSeq(UpperCase, i, i) = c
    THEN LET i == CHOOSE j \in 1..Len(UpperCase) : SubSeq(UpperCase, j, j) = c
         IN  SubSeq(LowerCase, i, i)
    ELSE c

RECURSIVE lower(_)
\* str.lower()
lower(s) == IF s = "" THEN "" ELSE lower_char(SubSeq(s, 1, 1)) \o lower(Tail(s))

\* Python's `word in text` on strings: word occurs as a substring.
in_string(word, text) ==
    \E i \in 1..(Len(text) - Len(word) + 1) : SubSeq(text, i, i + Len(word) - 1) = word

\* contains_blacklisted_word(input_string)
contains_blacklisted_word(input_string) ==
    LET normalized_string == lower(input_string)
    IN  \E k \in 1..Len(blacklist_words) : in_string(blacklist_words[k], normalized_string)

(***************************************************************************)
(* json.loads on the subset of JSON the model's answer texts are drawn     *)
(* from: one object whose values are true, false or strings without        *)
(* escapes.  A dict is a function from its keys to its values.  In this    *)
(* subset any other text raises JSONDecodeError.                            *)
(***************************************************************************)
Whitespace == {" ", "\n", "\t", "\r"}

char_at(s, i) == SubSeq(s, i, i)

starts_with(s, i, lit) ==
    i + Len(lit) - 1 <= Len(s) /\ SubSeq(s, i, i + Len(lit) - 1) = lit

RECURSIVE skip_ws(_, _)
skip_ws(s, i) ==
    IF i <= Len(s) /\ char_at(s, i) \in Whitespace THEN skip_ws(s, i + 1) ELSE i

RECURSIVE lstrip(_)
lstrip(s) == IF s # "" /\ char_at(s, 1) \in Whitespace THEN lstrip(Tail(s)) ELSE s

RECURSIVE rstrip(_)
rstrip(s) ==
    IF s # "" /\ char_at(s, Len(s)) \in Whitespace
    THEN rstrip(SubSeq(s, 1, Len(s) - 1))
    ELSE s

\* str.strip()
strip(s) == rstrip(lstrip(s))

JSONDecodeError == [ok |-> FALSE]

\* A string literal starting at the quote at position i.
parse_string(s, i) ==
    IF ~starts_with(s, i, "\"") THEN JSONDecodeError
    ELSE LET closing == {j \in (i + 1)..Len(s) : char_at(s, j) = "\""}
         IN  IF closing = {} THEN JSONDecodeError
             ELSE LET j == CHOOSE k \in closing : \A m \in closing : k <= m
                      body == SubSeq(s, i + 1, j - 1)
                  IN  IF in_string("\\", body) \/ in_string("\n", body)
                      THEN JSONDecodeError
                      ELSE [ok |-> TRUE, value |-> body, end |-> j + 1]

\* A value starting at position i: true, false or a string.
parse_value(s, i) ==
    IF starts_with(s, i, "true") THEN [ok |-> TRUE, value |-> TRUE, end |-> i + 4]
    ELSE IF starts_with(s, i, "false") THEN [ok |-> TRUE, value |-> FALSE, end |-> i + 5]
    ELSE parse_string(s, i)

RECURSIVE parse_members(_, _, _)
\* The members of an object from position i on, up to and including "}";
\* a repeated key keeps its last value.
parse_members(s, i, acc) ==
    LET key == parse_string(s, skip_ws(s, i))
    IN  IF ~key.ok THEN JSONDecodeError
        ELSE LET colon == skip_ws(s, key.end)
             IN  IF ~starts_with(s, colon, ":") THEN JSONDecodeError
                 ELSE LET val == parse_value(s, skip_ws(s, colon + 1))
                      IN  IF ~val.ok THEN JSONDecodeError
                          ELSE LET dict == (key.value :> val.value) @@ acc
                                   next == skip_ws(s, val.end)
                               IN  IF starts_with(s, next, "}")
                                   THEN [ok |-> TRUE, value |-> dict, end |-> next + 1]
                                   ELSE IF starts_with(s, next, ",")
                                   THEN parse_members(s, next + 1, dict)
                                   ELSE JSONDecodeError

parse_object(s, i) ==
    IF ~starts_with(s, i, "{") THEN JSONDecodeError
    ELSE LET first == skip_ws(s, i + 1)
         IN  IF starts_with(s, first, "}")
             THEN [ok |-> TRUE, value |-> <<>>, end |-> first + 1]
             ELSE parse_members(s, i + 1, <<>>)

\* json.loads(s): the parsed value, or JSONDecodeError (also on extra data).
json_loads(s) ==
    LET r == parse_object(s, skip_ws(s, 1))
    IN  IF r.ok /\ skip_ws(s, r.end) = Len(s) + 1
        THEN [ok |-> TRUE, value |-> r.value]
        ELSE JSONDecodeError

(***************************************************************************)
(* Bounds of the model.                                                    *)
(***************************************************************************)
\* Requests in flight at once under SpecConc (Spec handles one request).
NumReq == 2

\* Longest list of safety ratings a classifier response carries.
MaxRatings == 2

(***************************************************************************)
(* HTTP responses.                                                         *)
(***************************************************************************)
OK == 200

BadRequest == 400

\* jsonify(body), and `jsonify(body), status`
jsonify(body, status) ==
    [status |-> status, mimetype |-> "application/json", body |-> body]

\* What Flask answers when the view raises: the 500 error page.
InternalServerError ==
    [status |-> 500, mimetype |-> "text/html",
     body |-> [title |-> "500 Internal Server Error"]]

\* The verdict returned on a denylist hit.
DenylistVerdict ==
    [compliant |-> FALSE, reason |-> "Does not comply with our Term of Service"]

\* The verdict returned by the bare except.
FailureVerdict ==
    [compliant |-> FALSE, reason |-> "Does not comply with our Term of Service"]

RequiredError == [error |-> "Image and description are required"]

UnsupportedError == [error |-> "Unsupported image format"]

InvalidJsonError == [error |-> "Invalid JSON response from the model"]

SupportedMimetypes ==
    {"image/png", "image/jpeg", "image/webp", "image/heic", "image/heif"}

\* `not image`: a FileStorage is falsy when its filename is empty.
image_truthy(image) == image # None /\ image[1].filename # ""

\* f"{name} {description}"
combined_text(name, description) == format(name) \o " " \o format(description)

\* The last element of the prompt.
description_prompt(name, description) ==
    "Description: " \o format(name) \o " " \o format(description)

\* upload_validation with the two checks in the other order.
upload_validation_format_first(image, description) ==
    IF image # None /\ image[1].mimetype \notin SupportedMimetypes
    THEN Some(UnsupportedError)
    ELSE IF ~image_truthy(image) \/ ~truthy(description) THEN Some(RequiredError)
    ELSE None

\* The two validation steps after the denylist check: None, or the error.
upload_validation(image, description) ==
    IF ~image_truthy(image) \/ ~truthy(description) THEN Some(RequiredError)
    ELSE IF image[1].mimetype \notin SupportedMimetypes THEN Some(UnsupportedError)
    ELSE None

\* os.path.splitext(filename)[1]
splitext_ext(filename) ==
    LET dots == {i \in 1..Len(filename) : char_at(filename, i) = "."}
    IN  IF dots = {} THEN ""
        ELSE LET d == CHOOSE i \in dots : \A j \in dots : j <= i
             IN  IF \A j \in 1..d : char_at(filename, j) = "." THEN ""
                 ELSE SubSeq(filename, d, Len(filename))

(***************************************************************************)
(* The classifier's response and its normalisation.                        *)
(***************************************************************************)
\* The ratings whose probability is not NEGLIGIBLE, in order.
non_negligible(ratings) == SelectSeq(ratings, LAMBDA r : r.probability # "NEGLIGIBLE")

\* f"{rating.category.name[14:]} ({rating.probability.name})"
rating_label(rating) ==
    (IF Len(rating.category) > 14
     THEN SubSeq(rating.category, 15, Len(rating.category))
     ELSE "")
    \o " (" \o rating.probability \o ")"

RECURSIVE join(_, _)
\* sep.join(labels)
join(sep, labels) ==
    IF labels = <<>> THEN ""
    ELSE IF Len(labels) = 1 THEN labels[1]
    ELSE labels[1] \o sep \o join(sep, Tail(labels))

\* The SAFETY branch.
safety_result(ratings) ==
    LET non_negligible_ratings == non_negligible(ratings)
    IN  IF non_negligible_ratings # <<>>
        THEN jsonify([compliant |-> FALSE,
                      reason |-> join(", ", [i \in 1..Len(non_negligible_ratings) |->
                                    rating_label(non_negligible_ratings[i])])], OK)
        ELSE jsonify([compliant |-> TRUE], OK)

\* answer_result with the decode error left to the bare except.
answer_result_uncaught(text) ==
    LET response_data == json_loads(strip(text))
    IN  IF response_data.ok THEN jsonify(response_data.value, OK)
        ELSE jsonify(FailureVerdict, OK)

\* The other branch: json.loads(response.text.strip()).
answer_result(text) ==
    LET response_data == json_loads(strip(text))
    IN  IF response_data.ok THEN jsonify(response_data.value, OK)
        ELSE jsonify(InvalidJsonError, OK)

\* What the handler returns once generate_content has returned `response`.
\* response.text raises ValueError when the candidate holds no text part,
\* and print(response.text) comes first.
normalize(response) ==
    IF response.text = None THEN jsonify(FailureVerdict, OK)
    ELSE IF response.finish_reason = "SAFETY" THEN safety_result(response.safety_ratings)
    ELSE answer_result(response.text[1])

(***************************************************************************)
(* The inputs: the requests clients send and the outcomes the external     *)
(* classifier produces.                                                    *)
(***************************************************************************)
Names == {None, Some(""), Some("Red"), Some("Beer mug")}

Descriptions ==
    {None, Some(""), Some("socks"), Some("This is a bottle of vodka"),
     Some("Fine WHISKEY"), Some("NSFW poster"), Some("Sussex scarf")}

Images ==
    {None,
     Some([filename |-> "", mimetype |-> "application/octet-stream"]),
     Some([filename |-> "shoe.png", mimetype |-> "image/png"]),
     Some([filename |-> "anim.gif", mimetype |-> "image/gif"])}

Requests == [image : Images, name : Names, description : Descriptions]

Categories == {"HARM_CATEGORY_X", "HARM_CATEGORY_HATE_SPEECH"}

Probabilities == {"NEGLIGIBLE", "LOW", "HIGH"}

Ratings == [category : Categories, probability : Probabilities]

RatingLists == UNION {[1..n -> Ratings] : n \in 0..MaxRatings}

FinishReasons == {"STOP", "MAX_TOKENS", "SAFETY"}

\* Answer texts: None when the candidate holds no text part.
AnswerTexts ==
    {None,
     Some("{\"compliant\": true}"),
     Some("{\"compliant\": true, \"reason\": \"\"}"),
     Some(" {\"compliant\": false, \"reason\": \"Image shows a beer bottle\"}\n"),
     Some("{\"compliant\": false, \"reason\": \"Image sho"),
     Some("I cannot assess this listing."),
     Some("")}

Responses ==
    [finish_reason : FinishReasons, text : AnswerTexts, safety_ratings : RatingLists]

\* The inputs of SpecConc: few requests and outcomes, several requests at once.
ConcRequests ==
    {[image |-> Some([filename |-> "shoe.png", mimetype |-> "image/png"]),
      name |-> Some("Red"), description |-> d] :
        d \in {Some("socks"), Some("This is a bottle of vodka")}}

ConcResponses ==
    {[finish_reason |-> "STOP", text |-> Some("{\"compliant\": true}"),
      safety_ratings |-> <<>>],
     [finish_reason |-> "STOP", text |-> Some("I cannot assess this listing."),
      safety_ratings |-> <<>>],
     [finish_reason |-> "SAFETY", text |-> None,
      safety_ratings |-> <<[category |-> "HARM_CATEGORY_X", probability |-> "HIGH"]>>]}

(***************************************************************************)
(* The state: per request, the handler's position and locals; the          *)
(* temporary directory; and, as history, the steps each request took.      *)
(***************************************************************************)
VARIABLES
    pc,              \* where each request's handler stands
    image,           \* request.files.get('photo')
    name,            \* request.form.get('name')
    description,     \* request.form.get('description')
    temp_file,       \* the NamedTemporaryFile's name
    temp_file_path,  \* the local temp_file_path
    myfile,          \* the handle genai.upload_file returned
    prompt,          \* the text part of the prompt sent to the classifier
    response,        \* what model.generate_content returned
    result,          \* the HTTP response of the request
    fs,              \* the temporary files that exist
    trace            \* history: the steps each request has taken, in order

vars ==
    <<pc, image, name, description, temp_file, temp_file_path, myfile, prompt,
      response, result, fs, trace>>

Reqs == DOMAIN pc

TmpPaths(suffix) == {[stem |-> k, suffix |-> suffix] : k \in 1..NumReq}

InitFor(reqs) ==
    /\ pc = [r \in reqs |-> "idle"]
    /\ image = [r \in reqs |-> None]
    /\ name = [r \in reqs |-> None]
    /\ description = [r \in reqs |-> None]
    /\ temp_file = [r \in reqs |-> None]
    /\ temp_file_path = [r \in reqs |-> None]
    /\ myfile = [r \in reqs |-> None]
    /\ prompt = [r \in reqs |-> None]
    /\ response = [r \in reqs |-> None]
    /\ result = [r \in reqs |-> None]
    /\ fs = {}
    /\ trace = [r \in reqs |-> <<>>]

Init == InitFor({1})

InitConc == InitFor(1..NumReq)

\* The handler returns `res`: the request is answered.
Return(r, res) ==
    /\ result' = [result EXCEPT ![r] = Some(res)]
    /\ pc' = [pc EXCEPT ![r] = "done"]

Step(r, what) == trace' = [trace EXCEPT ![r] = Append(@, what)]

\* A request arrives and the handler reads its fields.
Receive(r, requests) ==
    /\ pc[r] = "idle"
    /\ \E req \in requests :
        /\ image' = [image EXCEPT ![r] = req.image]
        /\ name' = [name EXCEPT ![r] = req.name]
        /\ description' = [description EXCEPT ![r] = req.description]
    /\ pc' = [pc EXCEPT ![r] = "denylist"]
    /\ UNCHANGED <<temp_file, temp_file_path, myfile, prompt, response, result, fs, trace>>

\* if contains_blacklisted_word(f"{name} {description}"): return the verdict
DenylistCheck(r) ==
    /\ pc[r] = "denylist"
    /\ Step(r, "denylist")
    /\ IF contains_blacklisted_word(combined_text(name[r], description[r]))
       THEN Return(r, jsonify(DenylistVerdict, OK))
       ELSE pc' = [pc EXCEPT ![r] = "validate"] /\ UNCHANGED result
    /\ UNCHANGED <<image, name, description, temp_file, temp_file_path, myfile, prompt,
                   response, fs>>

\* The presence check, then the format check.
Validate(r) ==
    /\ pc[r] = "validate"
    /\ Step(r, "validate")
    /\ LET error == upload_validation(image[r], description[r])
       IN  IF error # None
           THEN Return(r, jsonify(error[1], BadRequest))
           ELSE pc' = [pc EXCEPT ![r] = "tempfile"] /\ UNCHANGED result
    /\ UNCHANGED <<image, name, description, temp_file, temp_file_path, myfile, prompt,
                   response, fs>>

\* tempfile.NamedTemporaryFile(delete=False, suffix=...): a new file under a
\* name no file has.
CreateTemp(r) ==
    /\ pc[r] = "tempfile"
    /\ \E p \in TmpPaths(splitext_ext(image[r][1].filename)) \ fs :
        /\ fs' = fs \cup {p}
        /\ temp_file' = [temp_file EXCEPT ![r] = Some(p)]
    /\ Step(r, "create")
    /\ pc' = [pc EXCEPT ![r] = "save"]
    /\ UNCHANGED <<image, name, description, temp_file_path, myfile, prompt, response,
                   result>>

\* NamedTemporaryFile raises OSError: nothing catches it.
CreateTempFails(r) ==
    /\ pc[r] = "tempfile"
    /\ Step(r, "create")
    /\ Return(r, InternalServerError)
    /\ UNCHANGED <<image, name, description, temp_file, temp_file_path, myfile, prompt,
                   response, fs>>

\* image.save(temp_file.name); temp_file_path = temp_file.name
SaveImage(r) ==
    /\ pc[r] = "save"
    /\ Step(r, "save")
    /\ temp_file_path' = [temp_file_path EXCEPT ![r] = temp_file[r]]
    /\ pc' = [pc EXCEPT ![r] = "upload"]
    /\ UNCHANGED <<image, name, description, temp_file, myfile, prompt, response, result,
                   fs>>

\* image.save raises: the with block closes the file, which delete=False
\* keeps, and the exception leaves the view; the try block is never entered.
SaveImageFails(r) ==
    /\ pc[r] = "save"
    /\ Step(r, "save")
    /\ Return(r, InternalServerError)
    /\ UNCHANGED <<image, name, description, temp_file, temp_file_path, myfile, prompt,
                   response, fs>>

\* finally: os.remove(temp_file_path), then the pending return of `res`; a
\* FileNotFoundError raised here replaces it.  `steps` are the calls the
\* try block made before it was left.
Finally(r, steps, res) ==
    IF temp_file_path[r][1] \in fs
    THEN /\ fs' = fs \ {temp_file_path[r][1]}
         /\ trace' = [trace EXCEPT ![r] = @ \o steps \o <<"remove">>]
         /\ Return(r, res)
    ELSE /\ trace' = [trace EXCEPT ![r] = @ \o steps \o <<"remove">>]
         /\ Return(r, InternalServerError)
         /\ UNCHANGED fs

\* except: return the generic verdict; finally runs.
Except(r, steps) == Finally(r, steps, jsonify(FailureVerdict, OK))

\* myfile = genai.upload_file(temp_file_path)
Upload(r) ==
    /\ pc[r] = "upload"
    /\ myfile' = [myfile EXCEPT ![r] = temp_file_path[r]]
    /\ Step(r, "upload")
    /\ pc' = [pc EXCEPT ![r] = "generate"]
    /\ UNCHANGED <<image, name, description, temp_file, temp_file_path, prompt, response,
                   result, fs>>

\* genai.upload_file raises.
UploadFails(r) ==
    /\ pc[r] = "upload"
    /\ Except(r, <<"upload">>)
    /\ UNCHANGED <<image, name, description, temp_file, temp_file_path, myfile, prompt,
                   response>>

\* response = model.generate_content(prompt, ...)
Generate(r, responses) ==
    /\ pc[r] = "generate"
    /\ prompt' = [prompt EXCEPT ![r] = Some(description_prompt(name[r], description[r]))]
    /\ \E resp \in responses : response' = [response EXCEPT ![r] = Some(resp)]
    /\ Step(r, "generate")
    /\ pc' = [pc EXCEPT ![r] = "normalize"]
    /\ UNCHANGED <<image, name, description, temp_file, temp_file_path, myfile, result, fs>>

\* model.generate_content raises, after the classifier was called.
GenerateFails(r) ==
    /\ pc[r] = "generate"
    /\ prompt' = [prompt EXCEPT ![r] = Some(description_prompt(name[r], description[r]))]
    /\ Except(r, <<"generate">>)
    /\ UNCHANGED <<image, name, description, temp_file, temp_file_path, myfile, response>>

\* The response is read and mapped to the handler's answer; finally runs.
Normalize(r) ==
    /\ pc[r] = "normalize"
    /\ Finally(r, <<>>, normalize(response[r][1]))
    /\ UNCHANGED <<image, name, description, temp_file, temp_file_path, myfile, prompt,
                   response>>

Next ==
    \/ \E r \in Reqs : Receive(r, Requests)
    \/ \E r \in Reqs : DenylistCheck(r)
    \/ \E r \in Reqs : Validate(r)
    \/ \E r \in Reqs : CreateTemp(r)
    \/ \E r \in Reqs : CreateTempFails(r)
    \/ \E r \in Reqs : SaveImage(r)
    \/ \E r \in Reqs : SaveImageFails(r)
    \/ \E r \in Reqs : Upload(r)
    \/ \E r \in Reqs : UploadFails(r)
    \/ \E r \in Reqs : Generate(r, Responses)
    \/ \E r \in Reqs : GenerateFails(r)
    \/ \E r \in Reqs : Normalize(r)

Spec == Init /\ [][Next]_vars

NextConc ==
    \/ \E r \in Reqs : Receive(r, ConcRequests)
    \/ \E r \in Reqs : DenylistCheck(r)
    \/ \E r \in Reqs : Validate(r)
    \/ \E r \in Reqs : CreateTemp(r)
    \/ \E r \in Reqs : CreateTempFails(r)
    \/ \E r \in Reqs : SaveImage(r)
    \/ \E r \in Reqs : SaveImageFails(r)
    \/ \E r \in Reqs : Upload(r)
    \/ \E r \in Reqs : UploadFails(r)
    \/ \E r \in Reqs : Generate(r, ConcResponses)
    \/ \E r \in Reqs : GenerateFails(r)
    \/ \E r \in Reqs : Normalize(r)

SpecConc == InitConc /\ [][NextConc]_vars

(***************************************************************************)
(* Vocabulary of the properties.                                           *)
(***************************************************************************)
Done(r) == pc[r] = "done"

Received(r) == pc[r] # "idle"

Answer(r) == result[r][1]

Count(seq, x) == Cardinality({i \in DOMAIN seq : seq[i] = x})

Took(r, step) == Count(trace[r], step) > 0

\* a and b are equal up to the case of their letters.
SameIgnoringCase(a, b) ==
    /\ Len(a) = Len(b)
    /\ \A i \in 1..Len(a) : lower_char(char_at(a, i)) = lower_char(char_at(b, i))

\* Some entry of the denylist occurs in text, compared case-insensitively.
DenylistTermOccurs(text) ==
    \E k \in 1..Len(blacklist_words) :
        \E i \in 1..(Len(text) - Len(blacklist_words[k]) + 1) :
            SameIgnoringCase(SubSeq(text, i, i + Len(blacklist_words[k]) - 1),
                             blacklist_words[k])

GenericVerdictOfTheSpec ==
    [status |-> 200, mimetype |-> "application/json",
     body |-> [compliant |-> FALSE,
               reason |-> "Does not comply with our Terms of Service"]]

\* C1: the matcher answers true exactly when an entry of the denylist occurs
\* in the text, compared case-insensitively, whatever the entry and the casing.
C1_MatcherIffTermOccurs ==
    \A r \in Reqs :
        Took(r, "denylist") =>
            (contains_blacklisted_word(combined_text(name[r], description[r]))
                <=> DenylistTermOccurs(combined_text(name[r], description[r])))

\* C2: a request whose text holds a denylist term is answered non-compliant by
\* the denylist check alone: no validation, no temporary file, no upload, no
\* call of the classifier.
C2_DenylistShortCircuits ==
    \A r \in Reqs :
        (Received(r) /\ DenylistTermOccurs(combined_text(name[r], description[r]))) =>
            /\ trace[r] \in {<<>>, <<"denylist">>}
            /\ temp_file[r] = None /\ myfile[r] = None /\ response[r] = None
            /\ Took(r, "denylist") =>
                (Done(r) /\ Answer(r).status = 200 /\ Answer(r).body.compliant = FALSE)

\* C3: on a denylist hit the answer is HTTP 200 with exactly the body
\* {"compliant": false, "reason": "Does not comply with our Terms of Service"}.
C3_DenylistVerdictBody ==
    \A r \in Reqs :
        (Done(r) /\ trace[r] = <<"denylist">>) => Answer(r) = GenericVerdictOfTheSpec

\* C4: a request the denylist does not stop is answered 400 "Image and
\* description are required" when the photo or the description is missing
\* (absent or empty), whatever the MIME type, and otherwise 400 "Unsupported
\* image format" when the MIME type is not one of the five allowed; in both
\* cases no temporary file is created and the classifier is not called.
C4_ValidationErrors ==
    \A r \in Reqs :
        LET missing == \/ image[r] = None \/ image[r][1].filename = ""
                       \/ description[r] = None \/ description[r][1] = ""
            allowed == {"image/png", "image/jpeg", "image/webp", "image/heic",
                        "image/heif"}
            expected == IF missing THEN "Image and description are required"
                        ELSE "Unsupported image format"
        IN  (/\ Received(r)
             /\ (missing \/ image[r][1].mimetype \notin allowed)
             /\ ~contains_blacklisted_word(combined_text(name[r], description[r]))) =>
                /\ ~Took(r, "create") /\ ~Took(r, "upload") /\ ~Took(r, "generate")
                /\ temp_file[r] = None /\ response[r] = None
                /\ Took(r, "validate") =>
                    /\ Done(r)
                    /\ Answer(r) = [status |-> 400, mimetype |-> "application/json",
                                    body |-> [error |-> expected]]

\* C4's case: the description is absent, the photo is a GIF, and the request
\* was answered by the validation.
C4_Witness ==
    \E r \in Reqs :
        /\ Done(r) /\ Took(r, "validate")
        /\ description[r] = None
        /\ image[r] # None /\ image[r][1].mimetype = "image/gif"
        /\ Answer(r).status = 400
        /\ Answer(r).body = [error |-> "Image and description are required"]

\* C5: whatever the interleaving, a temporary file a request created was
\* created before its upload, is removed exactly once, by that request, and
\* is gone when the request ends, on every exit path.
C5_TempFileRemoved ==
    \A r \in Reqs :
        temp_file[r] # None =>
            /\ \A i, j \in DOMAIN trace[r] :
                (trace[r][i] = "create" /\ trace[r][j] = "upload") => i < j
            /\ Count(trace[r], "remove") <= 1
            /\ Done(r) =>
                /\ Count(trace[r], "remove") = 1
                /\ temp_file[r][1] \in fs =>
                    \E q \in Reqs \ {r} : temp_file[q] = temp_file[r] /\ ~Done(q)

\* C6: once the denylist check and the validation are passed, a failure of
\* any classification step (the temporary file, the upload, the generate
\* call, reading the outcome) is answered HTTP 200 with the very body of a
\* denylist hit.
C6_FailClosed ==
    \A r \in Reqs :
        (/\ Done(r) /\ temp_file[r] # None
         /\ (response[r] = None \/ response[r][1].text = None)) =>
            Answer(r) = jsonify(DenylistVerdict, 200)

RECURSIVE FlaggedLabels(_)
\* The labels "<category without HARM_CATEGORY_> (<probability>)" of the
\* ratings above NEGLIGIBLE, in order.
FlaggedLabels(ratings) ==
    IF ratings = <<>> THEN <<>>
    ELSE LET rest == FlaggedLabels(Tail(ratings))
             cat == Head(ratings).category
             stripped == IF starts_with(cat, 1, "HARM_CATEGORY_")
                         THEN SubSeq(cat, Len("HARM_CATEGORY_") + 1, Len(cat))
                         ELSE cat
         IN  IF Head(ratings).probability = "NEGLIGIBLE" THEN rest
             ELSE <<stripped \o " (" \o Head(ratings).probability \o ")">> \o rest

\* C7: a safety-filter termination is answered from the ratings alone:
\* non-compliant with the joined labels of the ratings above NEGLIGIBLE, or
\* compliant when every rating is NEGLIGIBLE; never the generic verdict.
C7_SafetyTermination ==
    \A r \in Reqs :
        (Done(r) /\ response[r] # None /\ response[r][1].finish_reason = "SAFETY") =>
            LET labels == FlaggedLabels(response[r][1].safety_ratings)
            IN  Answer(r) =
                    [status |-> 200, mimetype |-> "application/json",
                     body |-> IF labels = <<>> THEN [compliant |-> TRUE]
                              ELSE [compliant |-> FALSE, reason |-> join(", ", labels)]]

\* The answer texts of the model that are valid JSON, with their values.
ValidAnswers ==
    {<<"{\"compliant\": true}", [compliant |-> TRUE]>>,
     <<"{\"compliant\": true, \"reason\": \"\"}", [compliant |-> TRUE, reason |-> ""]>>,
     <<" {\"compliant\": false, \"reason\": \"Image shows a beer bottle\"}\n",
       [compliant |-> FALSE, reason |-> "Image shows a beer bottle"]>>}

\* C8: when the classifier ends without a safety-filter termination, an answer
\* text that is valid JSON is answered as its parsed value with HTTP 200, and
\* one that is not as {"error": "Invalid JSON response from the model"} with
\* HTTP 200.
C8_AnswerPassThrough ==
    \A r \in Reqs :
        (/\ Done(r) /\ response[r] # None
         /\ response[r][1].finish_reason # "SAFETY"
         /\ response[r][1].text # None) =>
            LET text == response[r][1].text[1]
                body == IF \E a \in ValidAnswers : a[1] = text
                        THEN (CHOOSE a \in ValidAnswers : a[1] = text)[2]
                        ELSE [error |-> "Invalid JSON response from the model"]
            IN  Answer(r) = [status |-> 200, mimetype |-> "application/json",
                             body |-> body]

\* C8's case: a truncated answer was answered with the error body.
C8_Witness ==
    \E r \in Reqs :
        /\ Done(r) /\ response[r] # None
        /\ response[r][1].finish_reason = "MAX_TOKENS"
        /\ response[r][1].text = Some("{\"compliant\": false, \"reason\": \"Image sho")
        /\ Answer(r).body = [error |-> "Invalid JSON response from the model"]

\* C9: a request that ends has exactly one answer, which is Compliant,
\* NonCompliant with a reason or RequestError with a message and a status;
\* a reason or message that is present is not empty; the classifier is
\* called at most once.
C9_OneOfThreeOutcomes ==
    \A r \in Reqs :
        /\ Count(trace[r], "generate") <= 1
        /\ Done(r) <=> result[r] # None
        /\ Done(r) =>
            LET body == Answer(r).body
                keys == DOMAIN body
            IN  /\ Answer(r).mimetype = "application/json"
                /\ \/ /\ keys \in {{"compliant"}, {"compliant", "reason"}}
                      /\ body.compliant = TRUE
                   \/ /\ keys = {"compliant", "reason"}
                      /\ body.compliant = FALSE
                   \/ keys = {"error"}
                /\ "reason" \in keys => body.reason # ""
                /\ "error" \in keys => body.error # ""

\* C10: an absent name counts as the empty name, in the text the denylist
\* check reads and in the text sent to the classifier.
C10_AbsentNameIsEmpty ==
    \A r \in Reqs :
        (Took(r, "denylist") /\ name[r] = None) =>
            /\ combined_text(name[r], description[r])
                   = combined_text(Some(""), description[r])
            /\ prompt[r] # None =>
                   prompt[r] = Some(description_prompt(Some(""), description[r]))

====
